---- MODULE Spec2Model ----
(***************************************************************************)
(* Model of src/io.rs: the IoBackend capability trait with its default     *)
(* methods, the forwarding impl for &mut T, and the StdIo backend with its *)
(* memoised, re-entrant import.                                            *)
(***************************************************************************)
EXTENDS Integers, Sequences, FiniteSets, TLC

VARIABLES
    modules,    \* what Assembly::load_file finds at each path: a body or NoModule
    imports,    \* StdIo.imports: path -> stored stack
    frames,     \* the nested run_with_backend activations, outermost first
    out,        \* what print_str has written to stdout
    ret,        \* the result of the import call that returned last
    loads,      \* history: Assembly::load_file calls per path
    started,    \* history: body starts per path
    inserts,    \* history: imports.insert calls per path
    ncalls,     \* history: StdIo::import invocations per path
    returned,   \* history: the stacks successful imports of a path returned
    hostCalls,  \* history: import calls issued by the host program
    crashed,    \* the process died (stack exhaustion or index panic)
    hist,       \* history of the import call that returned last, and of the
                \* nested imports made by the runs that succeeded
    io          \* the pair of backends driven by the simple operations

vars == <<modules, imports, frames, out, ret, loads, started, inserts,
          ncalls, returned, hostCalls, crashed, hist, io>>

importVars == <<modules, imports, frames, out, ret, loads, started, inserts,
                ncalls, returned, hostCalls, crashed, hist>>

----------------------------------------------------------------------------
(* Bounds *)

MaxDepth == 3       \* nested activations the host stack holds
MaxHostCalls == 2   \* import calls the host program issues

Paths == {"a.lang", "b.lang"}

NoModule == <<"no module">>
None == [path |-> "", n |-> 0, ok |-> FALSE, val |-> "none", mutated |-> FALSE]

----------------------------------------------------------------------------
(* Module bodies: what run_with_backend executes.  A body is a list of     *)
(* instructions over the backend it was lent.                              *)
(*   print      print_str(path)                                            *)
(*   push       push the constant 1                                        *)
(*   rand       r := rand(); push r; skip the next instruction when r = 0  *)
(*   import q   import(q) through the lent backend; an error ends the run  *)
(*   fail       runtime error                                              *)

Other(p) == CHOOSE q \in Paths : q # p

BodiesOf(p) ==
    { <<<<"print">>, <<"push">>>>,
      <<<<"print">>, <<"fail">>>>,
      <<<<"print">>, <<"import", Other(p)>>, <<"push">>>>,
      <<<<"import", Other(p)>>, <<"print">>, <<"fail">>>>,
      <<<<"print">>, <<"rand">>, <<"import", p>>>>,
      <<<<"print">>, <<"rand">>, <<"import", p>>, <<"rand">>, <<"fail">>>>,
      <<<<"print">>, <<"import", p>>, <<"push">>>>,
      <<<<"print">>, <<"rand">>, <<"import", Other(p)>>>> }

RandOutcomes == {0, 1}

ZeroCount == [p \in Paths |-> 0]

Bump(f, p) == [f EXCEPT ![p] = @ + 1]

----------------------------------------------------------------------------
(* StdIo.imports and the loader *)

NeverContainsKey(cache, p) == FALSE

NegatedContainsKey(cache, p) == p \notin DOMAIN cache

\* line 114: self.imports.contains_key(path)
ContainsKey(cache, p) == p \in DOMAIN cache

InsertDropped(cache, p, stack) == cache

\* line 119: self.imports.insert(path.into(), stack)
Insert(cache, p, stack) ==
    [q \in DOMAIN cache \cup {p} |-> IF q = p THEN stack ELSE cache[q]]

EmptyClone(stack) == <<>>

\* line 121: Vec<Value>::clone
Clone(stack) == [i \in 1..Len(stack) |-> stack[i]]

\* Assembly::load_file(path)
LoadFile(p) == modules[p]

----------------------------------------------------------------------------
(* The host the simple operations act on *)

MaxIoCalls == 3     \* operations issued on the pair of backends

Line(s) == [ok |-> TRUE, text |-> s]
Bad == [ok |-> FALSE, text |-> ""]      \* a line the read fails on
StdinInputs == { <<>>, <<Line("hi")>>, <<Bad, Line("hi")>>, <<Line(""), Line("yo")>> }

NoFile == [kind |-> "none"]
Dir == [kind |-> "dir"]
File(bytes) == [kind |-> "file", bytes |-> bytes]

FilePaths == {"dir/f", "nope/g"}
FsPaths == {"dir"} \cup FilePaths
Contents == { <<>>, <<0>>, <<255, 0>> }
Parent(path) == IF path = "dir/f" THEN "dir" ELSE "nope"

HostVars == [n \in {"HOME"} |-> "/root"]
VarNames == {"HOME", "UNSET"}
HostArgs == <<"uiua", "run">>

LeafBodies == { <<<<"print">>, <<"push">>>>, <<<<"print">>, <<"fail">>>> }

Ops == {"print_str", "rand", "scan_line", "import", "var", "args",
        "file_exists", "list_dir", "is_file", "read_file", "write_file"}

ArgsOf(op) ==
    CASE op = "print_str"  -> {<<"hi">>}
      [] op = "import"     -> {<<p>> : p \in Paths}
      [] op = "var"        -> {<<n>> : n \in VarNames}
      [] op \in {"file_exists", "list_dir", "is_file", "read_file"}
                           -> {<<p>> : p \in FsPaths}
      [] op = "write_file" -> {<<p, c>> : p \in FsPaths, c \in Contents}
      [] OTHER             -> {<<>>}

\* values, tagged with their type
Str(s) == [t |-> "string", v |-> s]
Bool(b) == [t |-> "bool", v |-> b]
Float(r) == [t |-> "f64", v |-> r]
Bytes(b) == [t |-> "bytes", v |-> b]
List(l) == [t |-> "list", v |-> l]
Values(st) == [t |-> "values", v |-> st]
Unit == [t |-> "unit", v |-> 0]
Absent == [t |-> "none", v |-> 0]

Good(v) == [ok |-> TRUE, val |-> v]
Fails(msg) == [ok |-> FALSE, val |-> Str(msg)]

Done(w, r) == [w |-> w, ret |-> r]

\* the host filesystem
Stat(w, path) == IF path = "dir" THEN Dir
                 ELSE IF path \in DOMAIN w.fs THEN w.fs[path] ELSE NoFile

HostError(kind) == CASE kind = "none" -> "No such file or directory"
                     [] kind = "dir"  -> "Is a directory"
                     [] OTHER         -> "Not a directory"

----------------------------------------------------------------------------
(* trait IoBackend: the default methods, lines 15-41 *)

TraitDefaultAllFail(op, arg, w) ==
    CASE op = "import" -> [w |-> w, ret |-> Fails("Import not supported in this environment")]
      [] OTHER         -> [w |-> w, ret |-> Fails("File IO not supported in this environment")]

TraitDefault(op, arg, w) ==
    CASE op = "scan_line"   -> Done(w, Good(Str("")))
      [] op = "import"      -> Done(w, Fails("Import not supported in this environment"))
      [] op = "var"         -> Done(w, Good(Absent))
      [] op = "args"        -> Done(w, Good(List(<<>>)))
      [] op = "file_exists" -> Done(w, Good(Bool(FALSE)))
      [] OTHER              -> Done(w, Fails("File IO not supported in this environment"))

\* a backend that defines the two mandatory operations and nothing else
MinOverrides == {"print_str", "rand"}

MinOp(op, arg, w, r) ==
    IF op = "print_str"
    THEN Done([w EXCEPT !.out = Append(@, arg[1])], Good(Unit))
    ELSE Done(w, Good(Float(r)))

----------------------------------------------------------------------------
(* impl IoBackend for StdIo, lines 97-151 *)

\* lines 98-101
StdPrintStr(s, w) == Done([w EXCEPT !.out = Append(@, s)], Good(Unit))

ScanLineSurfacesError(w) ==
    IF w.stdin = <<>> THEN Done(w, Good(Str("")))
    ELSE Done([w EXCEPT !.stdin = Tail(@)],
              IF Head(w.stdin).ok THEN Good(Str(Head(w.stdin).text))
              ELSE Fails("stream did not contain valid UTF-8"))

\* lines 105-112: lines().next().and_then(Result::ok).unwrap_or_default()
StdScanLine(w) ==
    IF w.stdin = <<>> THEN Done(w, Good(Str("")))
    ELSE Done([w EXCEPT !.stdin = Tail(@)],
              Good(Str(IF Head(w.stdin).ok THEN Head(w.stdin).text ELSE "")))

\* the run of a body that imports nothing: <<succeeded, output, stack>>
RECURSIVE RunLeaf(_, _, _, _)
RunLeaf(body, path, o, stack) ==
    IF body = <<>> THEN <<TRUE, o, stack>>
    ELSE CASE Head(body) = <<"print">> -> RunLeaf(Tail(body), path, Append(o, path), stack)
           [] Head(body) = <<"push">>  -> RunLeaf(Tail(body), path, o, Append(stack, 1))
           [] OTHER                    -> <<FALSE, o, stack>>

\* lines 113-122, for bodies that import nothing
StdImportLeaf(p, w) ==
    IF ContainsKey(w.cache, p) THEN Done(w, Good(Values(Clone(w.cache[p]))))
    ELSE IF LoadFile(p) = NoModule THEN Done(w, Fails("import: load"))
    ELSE LET run == RunLeaf(LoadFile(p), p, w.out, <<>>)
         IN  IF run[1]
             THEN Done([w EXCEPT !.out = run[2], !.cache = Insert(@, p, run[3])],
                       Good(Values(Clone(run[3]))))
             ELSE Done([w EXCEPT !.out = run[2]], Fails("import: run"))

\* lines 123-125: env::var(name).ok()
StdVar(name) == IF name \in DOMAIN HostVars THEN Good(Str(HostVars[name])) ELSE Good(Absent)

\* lines 126-128
StdArgs == Good(List(HostArgs))

FileExistsOnlyFiles(path, w) == Good(Bool(Stat(w, path).kind = "file"))

\* lines 129-131: fs::metadata(path).is_ok()
StdFileExists(path, w) == Good(Bool(Stat(w, path).kind # "none"))

\* lines 132-136
StdIsFile(path, w) ==
    IF Stat(w, path).kind = "none" THEN Fails(HostError("none"))
    ELSE Good(Bool(Stat(w, path).kind = "file"))

\* lines 137-144
StdListDir(path, w) ==
    IF Stat(w, path).kind = "dir"
    THEN Good(List(IF Stat(w, "dir/f").kind = "none" THEN <<>> ELSE <<"dir/f">>))
    ELSE Fails(HostError(IF Stat(w, path).kind = "none" THEN "none" ELSE "file"))

\* lines 145-147: fs::read(path)
StdReadFile(path, w) ==
    IF Stat(w, path).kind = "file" THEN Good(Bytes(Stat(w, path).bytes))
    ELSE Fails(HostError(Stat(w, path).kind))

FsAppend(fs, path, contents) ==
    [q \in DOMAIN fs \cup {path} |->
        IF q # path THEN fs[q]
        ELSE IF path \in DOMAIN fs THEN File(fs[path].bytes \o contents)
        ELSE File(contents)]

\* line 149: fs::write(path, contents): create or truncate, then write everything
FsWrite(fs, path, contents) ==
    [q \in DOMAIN fs \cup {path} |-> IF q = path THEN File(contents) ELSE fs[q]]

\* lines 148-150
StdWriteFile(path, contents, w) ==
    IF Stat(w, path).kind = "dir" THEN Done(w, Fails(HostError("dir")))
    ELSE IF Stat(w, Parent(path)).kind # "dir" THEN Done(w, Fails(HostError("none")))
    ELSE Done([w EXCEPT !.fs = FsWrite(@, path, contents)], Good(Unit))

StdIoOp(op, arg, w, r) ==
    CASE op = "print_str"   -> StdPrintStr(arg[1], w)
      [] op = "rand"        -> Done(w, Good(Float(r)))
      [] op = "scan_line"   -> StdScanLine(w)
      [] op = "import"      -> StdImportLeaf(arg[1], w)
      [] op = "var"         -> Done(w, StdVar(arg[1]))
      [] op = "args"        -> Done(w, StdArgs)
      [] op = "file_exists" -> Done(w, StdFileExists(arg[1], w))
      [] op = "list_dir"    -> Done(w, StdListDir(arg[1], w))
      [] op = "is_file"     -> Done(w, StdIsFile(arg[1], w))
      [] op = "read_file"   -> Done(w, StdReadFile(arg[1], w))
      [] OTHER              -> StdWriteFile(arg[1], arg[2], w)

\* a call on a backend of the given kind: its own method, else the default
Dispatch(kind, op, arg, w, r) ==
    IF kind = "std" THEN StdIoOp(op, arg, w, r)
    ELSE IF op \in MinOverrides THEN MinOp(op, arg, w, r)
    ELSE TraitDefault(op, arg, w)

----------------------------------------------------------------------------
(* impl IoBackend for &mut T, lines 44-81 *)

AdapterImplPartial == Ops \ {"file_exists", "var"}

\* the methods the impl defines
AdapterImpl == Ops

\* (**self).op(..): the method of T each one calls
AdapterTarget(op) == op

\* the method a call through the borrow ends in
Lent(op) == IF op \in AdapterImpl THEN AdapterTarget(op) ELSE "default"

Adapter(kind, op, arg, w, r) ==
    IF op \in AdapterImpl THEN Dispatch(kind, AdapterTarget(op), arg, w, r)
    ELSE TraitDefault(op, arg, w)

----------------------------------------------------------------------------
(* StdIo::import, re-entered by the bodies it runs *)

Ok(p, n, v) == [path |-> p, n |-> n, ok |-> TRUE, val |-> v, mutated |-> FALSE]
Err(p, n, e) == [path |-> p, n |-> n, ok |-> FALSE, val |-> e, mutated |-> FALSE]

\* The caller of the call that just returned: the host when no activation is
\* left, else the body whose import instruction made the call.
Resume(fs, r) ==
    IF fs = <<>> THEN fs
    ELSE [fs EXCEPT ![Len(fs)].pc = IF r.ok THEN @ + 1 ELSE 0,
                    ![Len(fs)].got = IF r.ok THEN @ \cup {<<r.path, r.val>>} ELSE @]

\* what is remembered of a call that returns: the cache as the call found it
\* and the nested imports its run had completed
Returning(snap, got) == [hist EXCEPT !.snap = snap, !.got = got]

\* line 121: Ok(self.imports[path].clone()); the index panics without an entry
ReturnCached(cache, fs, p, n, h) ==
    IF p \in DOMAIN cache
    THEN /\ ret' = Ok(p, n, Clone(cache[p]))
         /\ returned' = [returned EXCEPT ![p] = @ \cup {cache[p]}]
         /\ frames' = Resume(fs, ret')
         /\ crashed' = crashed
         /\ hist' = h
    ELSE /\ crashed' = TRUE
         /\ ret' = Err(p, n, "index panic")
         /\ frames' = fs
         /\ hist' = h
         /\ UNCHANGED returned

\* lines 113-116: entry of import(path), up to the start of the nested run
Import(p) ==
    /\ ncalls' = Bump(ncalls, p)
    /\ IF ContainsKey(imports, p)
       THEN /\ ReturnCached(imports, frames, p, ncalls'[p], Returning(imports, {}))
            /\ UNCHANGED <<imports, out, loads, started, inserts>>
       ELSE /\ loads' = Bump(loads, p)
            /\ IF LoadFile(p) = NoModule
               THEN /\ ret' = Err(p, ncalls'[p], "import: load")
                    /\ frames' = Resume(frames, ret')
                    /\ hist' = Returning(imports, {})
                    /\ UNCHANGED <<imports, out, started, inserts, returned, crashed>>
               ELSE IF Len(frames) >= MaxDepth
               THEN /\ crashed' = TRUE
                    /\ UNCHANGED <<imports, frames, out, ret, hist, started, inserts, returned>>
               ELSE /\ started' = Bump(started, p)
                    /\ frames' = Append(frames, [path |-> p, n |-> ncalls'[p],
                                                 pc |-> 1, stack |-> <<>>,
                                                 pre |-> imports, got |-> {}])
                    /\ UNCHANGED <<imports, out, ret, hist, inserts, returned, crashed>>

\* The host program calls import(p) on the backend it owns.
HostImport(p) ==
    /\ ~crashed
    /\ frames = <<>>
    /\ hostCalls < MaxHostCalls
    /\ hostCalls' = hostCalls + 1
    /\ Import(p)
    /\ UNCHANGED <<modules, io>>

Top == frames[Len(frames)]
Callers == SubSeq(frames, 1, Len(frames) - 1)
Body(f) == modules[f.path]

Running == /\ ~crashed
           /\ frames # <<>>

SetTop(f) == [frames EXCEPT ![Len(frames)] = f]

\* a body instruction that uses print_str
StepPrint ==
    /\ Running /\ Top.pc \in 1..Len(Body(Top))
    /\ Body(Top)[Top.pc] = <<"print">>
    /\ out' = Append(out, Top.path)
    /\ frames' = SetTop([Top EXCEPT !.pc = @ + 1])
    /\ UNCHANGED <<modules, imports, ret, hist, loads, started, inserts, ncalls,
                   returned, hostCalls, crashed, io>>

StepPush ==
    /\ Running /\ Top.pc \in 1..Len(Body(Top))
    /\ Body(Top)[Top.pc] = <<"push">>
    /\ frames' = SetTop([Top EXCEPT !.pc = @ + 1, !.stack = Append(@, 1)])
    /\ UNCHANGED <<modules, imports, out, ret, hist, loads, started, inserts, ncalls,
                   returned, hostCalls, crashed, io>>

\* a body instruction that branches on rand()
StepRand ==
    /\ Running /\ Top.pc \in 1..Len(Body(Top))
    /\ Body(Top)[Top.pc] = <<"rand">>
    /\ \E r \in RandOutcomes :
          frames' = SetTop([Top EXCEPT !.pc = IF r = 0 THEN @ + 2 ELSE @ + 1,
                                       !.stack = Append(@, r)])
    /\ UNCHANGED <<modules, imports, out, ret, hist, loads, started, inserts, ncalls,
                   returned, hostCalls, crashed, io>>

\* a body instruction that imports: the call goes through the &mut StdIo the
\* body was lent (line 117) and re-enters StdIo::import
StepImport ==
    /\ Running /\ Top.pc \in 1..Len(Body(Top))
    /\ Body(Top)[Top.pc][1] = "import"
    /\ IF Lent("import") = "import"
       THEN Import(Body(Top)[Top.pc][2])
       ELSE /\ ret' = Err(Body(Top)[Top.pc][2], 0,
                          "Import not supported in this environment")
            /\ frames' = Resume(frames, ret')
            /\ UNCHANGED <<imports, out, loads, started, inserts, ncalls,
                           returned, crashed, hist>>
    /\ UNCHANGED <<modules, hostCalls, io>>

\* lines 117-118: the run failed (its own error, or a nested import's); the
\* ? operator returns the error without touching the cache
StepFail ==
    /\ Running
    /\ \/ Top.pc = 0
       \/ /\ Top.pc \in 1..Len(Body(Top))
          /\ Body(Top)[Top.pc] = <<"fail">>
    /\ ret' = Err(Top.path, Top.n, "import: run")
    /\ frames' = Resume(Callers, ret')
    /\ hist' = Returning(Top.pre, Top.got)
    /\ UNCHANGED <<modules, imports, out, loads, started, inserts, ncalls,
                   returned, hostCalls, crashed, io>>

\* lines 119-121: the run succeeded; store its stack, return a copy
StepFinish ==
    /\ Running
    /\ Top.pc > Len(Body(Top))
    /\ imports' = Insert(imports, Top.path, Top.stack)
    /\ inserts' = Bump(inserts, Top.path)
    /\ ReturnCached(imports', Callers, Top.path, Top.n,
                    [snap |-> Top.pre, got |-> Top.got,
                     nested |-> hist.nested \cup
                                {<<Top.path, g[1], g[2]>> : g \in Top.got}])
    /\ UNCHANGED <<modules, out, loads, started, ncalls, hostCalls, io>>

\* the importer changes the copy it was handed
MutateCopy ==
    /\ ~crashed
    /\ frames = <<>>
    /\ ret # None /\ ret.ok /\ ~ret.mutated
    /\ ret' = [ret EXCEPT !.val = Append(@, 7), !.mutated = TRUE]
    /\ hist' = hist
    /\ UNCHANGED <<modules, imports, frames, out, loads, started, inserts,
                   ncalls, returned, hostCalls, crashed, io>>

----------------------------------------------------------------------------
(* The pair of backends the simple operations are issued on *)

Idle == [kind |-> "idle"]

World(stdin) == [fs |-> <<>>, stdin |-> stdin, out |-> <<>>, cache |-> <<>>]

\* One operation, issued on a backend directly and, on a second backend of
\* the same kind in the same situation, through an exclusive borrow of it.
IoCall(op, arg) ==
    /\ io # Idle
    /\ io.calls < MaxIoCalls
    /\ \E r \in RandOutcomes :
         LET d == Dispatch(io.kind, op, arg, io.d, r)
             b == Adapter(io.kind, op, arg, io.b, r)
         IN  io' = [io EXCEPT !.d = d.w, !.b = b.w, !.pre = io.d,
                              !.op = op, !.arg = arg,
                              !.dres = d.ret, !.bres = b.ret,
                              !.calls = @ + 1,
                              !.written = IF op = "write_file" /\ d.ret.ok
                                          THEN [q \in DOMAIN @ \cup {arg[1]} |->
                                                  IF q = arg[1] THEN arg[2] ELSE @[q]]
                                          ELSE @]
    /\ UNCHANGED importVars

InitIo ==
    /\ modules \in [Paths -> LeafBodies \cup {NoModule}]
    /\ modules["a.lang"] # NoModule
    /\ modules["b.lang"] # modules["a.lang"]
    /\ imports = <<>>
    /\ frames = <<>>
    /\ out = <<>>
    /\ ret = None
    /\ loads = ZeroCount
    /\ started = ZeroCount
    /\ inserts = ZeroCount
    /\ ncalls = ZeroCount
    /\ returned = [p \in Paths |-> {}]
    /\ hostCalls = 0
    /\ crashed = FALSE
    /\ hist = [snap |-> <<>>, got |-> {}, nested |-> {}]
    /\ \E kind \in {"min", "std"}, stdin \in StdinInputs :
          io = [kind |-> kind, d |-> World(stdin), b |-> World(stdin),
                pre |-> World(stdin), op |-> "none", arg |-> <<>>,
                dres |-> Good(Unit), bres |-> Good(Unit), calls |-> 0,
                written |-> <<>>]

NextIo == \E op \in Ops : \E arg \in ArgsOf(op) : IoCall(op, arg)

SpecIo == InitIo /\ [][NextIo]_vars

----------------------------------------------------------------------------

Step == StepPrint \/ StepPush \/ StepRand \/ StepImport \/ StepFail \/ StepFinish

Init ==
    /\ modules \in [Paths -> UNION {BodiesOf(p) : p \in Paths} \cup {NoModule}]
    /\ \A p \in Paths : modules[p] \in BodiesOf(p) \cup {NoModule}
    /\ imports = <<>>
    /\ frames = <<>>
    /\ out = <<>>
    /\ ret = None
    /\ loads = ZeroCount
    /\ started = ZeroCount
    /\ inserts = ZeroCount
    /\ ncalls = ZeroCount
    /\ returned = [p \in Paths |-> {}]
    /\ hostCalls = 0
    /\ crashed = FALSE
    /\ hist = [snap |-> <<>>, got |-> {}, nested |-> {}]
    /\ io = Idle

Next ==
    \/ \E p \in Paths : HostImport(p)
    \/ StepPrint
    \/ StepPush
    \/ StepRand
    \/ StepImport
    \/ StepFail
    \/ StepFinish
    \/ MutateCopy

Spec == Init /\ [][Next]_vars

\* import drives the nested run to completion before it returns (line 117):
\* a run that can take a step takes it
SpecLive == Init /\ [][Next]_vars /\ WF_vars(Step)

----------------------------------------------------------------------------
(* Claims about import *)

Count(seq, x) == Cardinality({i \in 1..Len(seq) : seq[i] = x})

PrintsAndYieldsOne == <<<<"print">>, <<"push">>>>

\* a step in which import(p) is invoked
Invoked(p) == ncalls'[p] = ncalls[p] + 1

C2_CachedImportReturnsCopy ==
    /\ [][\A p \in Paths :
            (Invoked(p) /\ p \in DOMAIN imports) =>
               /\ ret' = Ok(p, ncalls'[p], imports[p])
               /\ imports' = imports
               /\ loads' = loads /\ started' = started /\ inserts' = inserts
               /\ out' = out
               /\ Len(frames') = Len(frames)]_vars
    /\ [](\A p \in Paths :
            (modules[p] = PrintsAndYieldsOne /\ frames = <<>>) =>
               /\ Count(out, p) <= 1
               /\ (ret.ok /\ ret.path = p /\ ~ret.mutated => ret.val = <<1>>))

C2_Witness ==
    /\ modules["a.lang"] = PrintsAndYieldsOne
    /\ hostCalls = 2 /\ ncalls["a.lang"] = 2
    /\ frames = <<>>
    /\ out = <<"a.lang">>
    /\ returned["a.lang"] = {<<1>>}
    /\ ret = Ok("a.lang", 2, <<1>>)

\* C3: the cache receives at most one insertion per path, and the stack
\* stored for a path never changes once it is there.
C3_InsertedOnceAndImmutable ==
    /\ [](\A p \in Paths : inserts[p] <= 1)
    /\ [][\A p \in DOMAIN imports :
            p \in DOMAIN imports' /\ imports'[p] = imports[p]]_vars

\* C4: when the first import(p) fails it returns an import error and leaves
\* no cache entry for p; an import(p) that finds no entry loads the module
\* again and, when it loads, runs it again.
C4_FailedFirstImportLeavesNoEntry ==
    /\ []((~ret.ok /\ ret.n = 1) =>
            /\ ret.val \in {"import: load", "import: run"}
            /\ ret.path \notin DOMAIN imports)
    /\ [][\A p \in Paths :
            (Invoked(p) /\ p \notin DOMAIN imports) =>
               /\ loads'[p] = loads[p] + 1
               /\ (LoadFile(p) # NoModule =>
                     crashed' \/ started'[p] = started[p] + 1)]_vars

\* C5: all successful imports of a path return value-equal stacks, and
\* changing a returned copy changes neither the cache nor what any other
\* import returned or returns.
C5_EqualIndependentCopies ==
    /\ [](\A p \in Paths : Cardinality(returned[p]) <= 1)
    /\ [][(ret'.mutated /\ ~ret.mutated) =>
            (imports' = imports /\ returned' = returned)]_vars

\* the import relation: p -> q when the body at p has an import of q
ImportsOf(p) ==
    IF modules[p] = NoModule THEN {}
    ELSE {modules[p][i][2] : i \in {j \in 1..Len(modules[p]) : modules[p][j][1] = "import"}}

RECURSIVE Reach(_, _)
Reach(from, k) ==
    IF k = 0 THEN from
    ELSE Reach(from \cup UNION {ImportsOf(q) : q \in from}, k - 1)

Acyclic == \A p \in Paths : p \notin Reach(ImportsOf(p), Cardinality(Paths))

\* C8 as stated: every import call, at whatever nesting depth, eventually
\* returns to its caller, for any import relation between the modules.
C8_EveryImportReturns ==
    /\ [](~crashed)
    /\ \A d \in 1..MaxDepth : (Len(frames) >= d) ~> (Len(frames) < d)

\* C8, amended: when no module imports itself, directly or through other
\* modules, every import call eventually returns to its caller, with a stack
\* or with an error.
C8_AcyclicImportsReturn ==
    /\ [](Acyclic => ~crashed)
    /\ \A d \in 1..MaxDepth : (Acyclic /\ Len(frames) >= d) ~> (Len(frames) < d)

C8_Witness ==
    /\ Acyclic
    /\ modules["a.lang"] = <<<<"print">>, <<"import", "b.lang">>, <<"push">>>>
    /\ modules["b.lang"] = PrintsAndYieldsOne
    /\ frames = <<>>
    /\ ret = Ok("a.lang", 1, <<1>>)
    /\ out = <<"a.lang", "b.lang">>

----------------------------------------------------------------------------
(* Claims about the simple operations *)

Optional == Ops \ MinOverrides

\* C6: on a backend that defines only print_str and rand, every optional
\* operation leaves the backend as it was and returns its documented default:
\* scan_line "", var absent, args empty, file_exists false, import and the
\* file operations their "not supported" errors.
C6_DefaultsOnMinimalBackend ==
    (io.kind = "min" /\ io.op \in Optional) =>
       /\ io.d = io.pre
       /\ io.op = "scan_line" => io.dres = [ok |-> TRUE, val |-> Str("")]
       /\ io.op = "var" => io.dres = [ok |-> TRUE, val |-> Absent]
       /\ io.op = "args" => io.dres = [ok |-> TRUE, val |-> List(<<>>)]
       /\ io.op = "file_exists" => io.dres = [ok |-> TRUE, val |-> Bool(FALSE)]
       /\ io.op = "import" =>
             io.dres = [ok |-> FALSE,
                        val |-> Str("Import not supported in this environment")]
       /\ io.op \in {"list_dir", "is_file", "read_file", "write_file"} =>
             io.dres = [ok |-> FALSE,
                        val |-> Str("File IO not supported in this environment")]

C6_Witness ==
    /\ io.kind = "min"
    /\ io.calls = 3
    /\ io.op = "file_exists" /\ io.arg = <<"dir">>
    /\ io.d.out = <<"hi">>
    /\ io.dres = [ok |-> TRUE, val |-> Bool(FALSE)]

\* C7: after any sequence of operations issued on one backend directly and
\* on its twin through an exclusive borrow, the two backends are in the same
\* state and the last operation returned the same result on both.
C7_BorrowIsTransparent ==
    /\ io.b = io.d
    /\ io.bres = io.dres

C7_Witness ==
    /\ io.kind = "std"
    /\ io.calls = 3
    /\ io.op = "file_exists" /\ io.arg = <<"dir/f">>
    /\ io.bres = [ok |-> TRUE, val |-> Bool(TRUE)]
    /\ io.b.stdin # io.pre.stdin \/ io.b.out # <<>>

\* C9: on StdIo, read_file of a path whose last successful write_file wrote
\* bytes returns exactly bytes.
C9_WriteReadRoundTrip ==
    (io.kind = "std" /\ io.op = "read_file" /\ io.arg[1] \in DOMAIN io.written) =>
       io.dres = [ok |-> TRUE, val |-> Bytes(io.written[io.arg[1]])]

C9_Witness ==
    /\ io.kind = "std"
    /\ io.calls = 3
    /\ io.op = "read_file" /\ io.arg = <<"dir/f">>
    /\ io.written = [q \in {"dir/f"} |-> <<0>>]
    /\ io.dres = [ok |-> TRUE, val |-> Bytes(<<0>>)]

\* C10: StdIo::scan_line returns a string and never an error: the empty
\* string when stdin is exhausted or the read of the next line fails, else
\* the next line.
C10_ScanLineNeverFails ==
    (io.kind = "std" /\ io.op = "scan_line") =>
       /\ io.dres.ok
       /\ io.dres.val.t = "string"
       /\ io.dres.val.v = IF io.pre.stdin = <<>> THEN ""
                          ELSE IF ~Head(io.pre.stdin).ok THEN ""
                          ELSE Head(io.pre.stdin).text

C10_Witness ==
    /\ io.kind = "std"
    /\ io.calls = 3
    /\ io.op = "scan_line"
    /\ io.pre.stdin = <<>>
    /\ io.dres = [ok |-> TRUE, val |-> Str("")]
    /\ io.d.stdin = <<>>

----------------------------------------------------------------------------
(* Claims about nested imports and the final lookup *)

\* C11: nested imports use the importer's cache.  When import(A) succeeded
\* and A's body had imported another module B, B has an entry afterwards and
\* a later top-level import(B) returns the stack that nested import returned,
\* without running B; and a body's import of an already cached B does not
\* run B.
C11_NestedImportsShareCache ==
    /\ [](\A t \in hist.nested : t[2] \in DOMAIN imports)
    /\ [][\A t \in hist.nested :
            (t[1] # t[2] /\ frames = <<>> /\ Invoked(t[2])) =>
               /\ ret' = Ok(t[2], ncalls'[t[2]], t[3])
               /\ started' = started /\ out' = out]_vars
    /\ [][\A p \in Paths :
            (frames # <<>> /\ Invoked(p) /\ p \in DOMAIN imports) =>
               /\ started' = started /\ out' = out
               /\ ret' = Ok(p, ncalls'[p], imports[p])]_vars

\* C12: on StdIo file_exists never fails and is true exactly when is_file on
\* the same path and filesystem succeeds (one stat decides both); when the
\* stat fails file_exists is false and is_file is a runtime error carrying
\* the host error's description.
C12_FileExistsIffIsFileSucceeds ==
    (io.kind = "std" /\ io.op \in {"file_exists", "is_file"}) =>
       LET path == io.arg[1]
           statOk == Stat(io.pre, path).kind # "none"
           exists == IF io.op = "file_exists" THEN io.dres
                     ELSE StdFileExists(path, io.pre)
           isFile == IF io.op = "is_file" THEN io.dres
                     ELSE StdIsFile(path, io.pre)
       IN  /\ io.d = io.pre
           /\ exists.ok /\ exists.val.t = "bool"
           /\ exists.val.v = isFile.ok
           /\ exists.val.v = statOk
           /\ statOk => isFile.val = Bool(Stat(io.pre, path).kind = "file")
           /\ ~statOk => isFile.val = Str(HostError("none"))

C12_Witness ==
    /\ io.kind = "std"
    /\ io.calls = 3
    /\ io.op = "is_file" /\ io.arg = <<"nope/g">>
    /\ io.dres = [ok |-> FALSE, val |-> Str("No such file or directory")]
    /\ Stat(io.d, "dir/f").kind = "file"
    /\ StdFileExists("dir/f", io.d).val.v /\ ~StdFileExists("nope/g", io.d).val.v

FailedImport == ~ret.ok /\ ret.val \in {"import: load", "import: run"}

\* the entries the failed call found are still there, unchanged
C13_PriorEntriesKept ==
    FailedImport =>
       \A q \in DOMAIN hist.snap : q \in DOMAIN imports /\ imports[q] = hist.snap[q]

\* the modules whose nested imports completed inside the failed call stay cached
C13_NestedEntriesKept ==
    FailedImport => \A g \in hist.got : g[1] \in DOMAIN imports

\* a cached module is not started again, by a retry or by anything else
C13_CachedNotRerun ==
    [][\A q \in DOMAIN imports : started'[q] = started[q]]_vars

\* C13: a failed import(p) is not rolled back: the entries that existed
\* before the call are unchanged and p has no entry after it, while the
\* modules whose nested imports completed before the failure stay cached and
\* are not run again when import(p) is retried.
C13_FailedImportFrame ==
    /\ [](C13_PriorEntriesKept /\ C13_NestedEntriesKept)
    /\ [](FailedImport => ret.path \notin DOMAIN imports)
    /\ C13_CachedNotRerun

\* C14: the lookup of line 121 always finds an entry: no import ends in the
\* index panic, whether it found the entry on entry or inserted it itself.
C14_FinalLookupNeverPanics ==
    ~(~ret.ok /\ ret.val = "index panic")

C14_Witness ==
    \E p \in Paths :
       /\ frames = <<>> /\ ~crashed
       /\ inserts[p] = 1 /\ ncalls[p] = 2
       /\ ret = Ok(p, 2, imports[p])
       /\ Cardinality(returned[p]) = 1

====
